---- MODULE Spec2Model ----
(***************************************************************************)
(* A model of libsums' SumsClient (src/src/client.rs, src/src/member.rs).  *)
(*                                                                         *)
(* The client drives one remote browser through WebDriver commands.  Every *)
(* `.await` of a remote command is one step of the model: the command is   *)
(* appended to `log` together with the result the browser gave, and the    *)
(* `?` operator ends the call at the first Err.  The browser and the site  *)
(* behind it are the environment: they decide which elements exist, what   *)
(* the login page says and what the member table holds.                    *)
(***************************************************************************)
EXTENDS Integers, Sequences, FiniteSets, TLC

(***************************************************************************)
(* Bounds of the model.                                                    *)
(***************************************************************************)
\* Longest table the site holds.
MaxRows == 3
\* Rows the table component shows before the page size is changed.
DefaultPageSize == 2

(***************************************************************************)
(* Source constants.                                                       *)
(***************************************************************************)
BASE_URL == "https://su.nottingham.ac.uk"
DASHBOARD_URL == "https://student-dashboard.sums.su"
GROUP_ID == 213

\* A mis-set page size: the value of one of the stock options.
entry_count_u64_stock == DefaultPageSize
entry_count_u64 == 100000

\* A URL with the group of the tests written into it.
MembersUrl_fixed(group_id) == <<DASHBOARD_URL, "groups", GROUP_ID, "members">>
\* format!("https://student-dashboard.sums.su/groups/{}/members", group_id)
MembersUrl(group_id) == <<DASHBOARD_URL, "groups", group_id, "members">>

\* The locators of client.rs.
UserActionsInvoker == <<"id", "userActionsInvoker">>
StudentLogin == <<"xpath", "//*[@id=\"userActions\"]/ul/li[1]/a[1]">>
LoginForm == <<"xpath", "/html/body/div/div/div/div[1]/form">>
LoginErrorText == <<"xpath", "/html/body/div/div/div/div[1]/section/p">>
StudentDashboardLink == <<"id", "studentDashboardLink">>
EntryCountSelect ==
    <<"css", "#group-member-list-datatable_length > label:nth-child(1) > select:nth-child(1)">>
TableBody == <<"css", "#group-member-list-datatable > tbody:nth-child(2)">>

(***************************************************************************)
(* fantoccini's CmdError, as far as the client tells its variants apart    *)
(* (it never does: see authenticate's `Err(_)`).                           *)
(***************************************************************************)
NoSuchElement == "NoSuchElement"
WaitTimeout == "WaitTimeout"
\* Connection dropped / command rejected by the WebDriver server.
TransportFaults == {"Lost", "Failed"}

(***************************************************************************)
(* Error types of client.rs and their From conversions.                    *)
(***************************************************************************)
WebDriverCmdError(e) == [variant |-> "WebDriverCmdError", source |-> e]

AuthFailedError(text) == [variant |-> "AuthFailedError", source |-> text]

\* A conversion that reports every command fault as a rejection.
FromCmdErrorAuth_asRejection(e) == AuthFailedError("")
FromCmdErrorAuth(e) ==
    [variant |-> "SumsClientError", source |-> WebDriverCmdError(e)]

FromCmdErrorMembers(e) ==
    [variant |-> "SumsClientError", source |-> WebDriverCmdError(e)]

\* #[from] SumsClientError, used by `self.go_to_member_page().await?`
FromSumsClientErrorMembers(err) ==
    [variant |-> "SumsClientError", source |-> err]

ChronoParseError == [variant |-> "ChronoParseError", source |-> "ParseError"]

Ok(v) == [tag |-> "Ok", value |-> v]
Err(e) == [tag |-> "Err", value |-> e]
Unit == "()"
NoReturn == [tag |-> "None", value |-> Unit]
Panicked == [tag |-> "Panic", value |-> "index out of bounds"]

(***************************************************************************)
(* member.rs                                                               *)
(***************************************************************************)
Student == "Student"

\* A constructor that crosses two of its String parameters.
Member_new_crossed(student_id, name, member_type, subscription_purchased, date_joined) ==
    [student_id |-> student_id,
     name |-> subscription_purchased,
     member_type |-> member_type,
     subscription_purchased |-> name,
     date_joined |-> date_joined]

Member_new(student_id, name, member_type, subscription_purchased, date_joined) ==
    [student_id |-> student_id,
     name |-> name,
     member_type |-> member_type,
     subscription_purchased |-> subscription_purchased,
     date_joined |-> date_joined]

\* StudentId = String: str::parse::<String>() copies the text and never fails.
ParseStudentId(text) == Ok(text)

(***************************************************************************)
(* NaiveDate::parse_from_str(text, "%Y-%m-%d").  A text is a sequence of   *)
(* characters.  %Y takes one to four digits, %m and %d one or two, the     *)
(* literals must match, nothing may follow, and the fields must name a day *)
(* of the calendar.                                                        *)
(***************************************************************************)
Digits == <<"0", "1", "2", "3", "4", "5", "6", "7", "8", "9">>

IsDigit(c) == \E i \in 1..10 : Digits[i] = c

DigitVal(c) == (CHOOSE i \in 1..10 : Digits[i] = c) - 1

\* Number of leading digits of s, at most max.
RECURSIVE DigitRun(_, _)
DigitRun(s, max) ==
    IF max = 0 \/ s = <<>> \/ ~IsDigit(Head(s)) THEN 0
    ELSE 1 + DigitRun(Tail(s), max - 1)

RECURSIVE NumVal(_, _)
NumVal(s, acc) ==
    IF s = <<>> THEN acc ELSE NumVal(Tail(s), 10 * acc + DigitVal(Head(s)))

Drop(s, n) == SubSeq(s, n + 1, Len(s))

IsLeap(y) == (y % 4 = 0 /\ y % 100 # 0) \/ y % 400 = 0

DaysIn(y, m) ==
    IF m = 2 THEN (IF IsLeap(y) THEN 29 ELSE 28)
    ELSE IF m \in {4, 6, 9, 11} THEN 30 ELSE 31

ParseFailed == [tag |-> "Err", value |-> ChronoParseError]

ParseDate(text) ==
    LET ny == DigitRun(text, 4)
        r1 == Drop(text, ny)
        nm == IF r1 # <<>> /\ Head(r1) = "-" THEN DigitRun(Tail(r1), 2) ELSE 0
        r2 == IF nm > 0 THEN Drop(Tail(r1), nm) ELSE <<>>
        nd == IF r2 # <<>> /\ Head(r2) = "-" THEN DigitRun(Tail(r2), 2) ELSE 0
        r3 == IF nd > 0 THEN Drop(Tail(r2), nd) ELSE <<"?">>
        y == NumVal(SubSeq(text, 1, ny), 0)
        m == NumVal(SubSeq(Tail(r1), 1, nm), 0)
        d == NumVal(SubSeq(Tail(r2), 1, nd), 0)
    IN  IF ny = 0 \/ nm = 0 \/ nd = 0 \/ r3 # <<>> THEN ParseFailed
        ELSE IF m < 1 \/ m > 12 \/ d < 1 \/ d > DaysIn(y, m) THEN ParseFailed
        ELSE Ok([year |-> y, month |-> m, day |-> d])

(***************************************************************************)
(* The site.                                                               *)
(***************************************************************************)
Usernames == {"psyjd1"}
Passwords == {"correct horse", "wrong"}
\* The logins the single-sign-on portal accepts.
Accounts == {<<"psyjd1", "correct horse">>}
\* What the portal writes into the login page's error paragraph.
ErrorTexts == {"Invalid credentials.", "Account locked."}
NoElement == "<absent>"

D_2023_09_01 == <<"2", "0", "2", "3", "-", "0", "9", "-", "0", "1">>
D_2023_9_1 == <<"2", "0", "2", "3", "-", "9", "-", "1">>
D_2024_02_29 == <<"2", "0", "2", "4", "-", "0", "2", "-", "2", "9">>
D_not_a_date == <<"n", "o", "t", "-", "a", "-", "d", "a", "t", "e">>

\* The table rows the site may hold: the cells of one <tr>, in document order.
RowJane == <<"123456", "Jane Doe", "<ignored>", "Gold", D_2023_09_01>>
RowJaneAlt == <<"123456", "Jane Doe", "Student", "Gold", D_2023_9_1>>
RowSam == <<"0042", "Sam Roe", "Student", "Silver", D_2024_02_29>>
RowBadDate == <<"777", "Kim Poe", "Student", "Gold", D_not_a_date>>
\* The single-cell row a table component shows in place of data.
RowPlaceholder == <<"No data available in table">>

RowKinds == {RowJane, RowJaneAlt, RowSam, RowBadDate, RowPlaceholder}

RECURSIVE SeqsUpTo(_, _)
SeqsUpTo(S, n) ==
    IF n = 0 THEN {<<>>}
    ELSE LET shorter == SeqsUpTo(S, n - 1)
         IN  shorter \cup {Append(t, x) : t \in {u \in shorter : Len(u) = n - 1}, x \in S}

Tables == SeqsUpTo(RowKinds, MaxRows)

GroupIds == {GROUP_ID, GROUP_ID + 1}

\* The options the page-size control offers as served.
DefaultOptions == {DefaultPageSize}

BlankPage == <<>>
BasePage == <<BASE_URL>>
LoginPage == <<"login">>
SuPage == <<BASE_URL, "home">>
DashboardPage == <<DASHBOARD_URL>>

EmptyForm == [username |-> "", password |-> ""]

Min(a, b) == IF a < b THEN a ELSE b

\* The <tr> elements of the table body: the first pageSize rows of the data.
Rendered(table, size) == SubSeq(table, 1, Min(Len(table), size))

\* js/add_show_all_entries.js: after it ran, the page-size control (if the
\* page has one) offers the show-all option.
AddShowAllEntries(opts) == IF opts = {} THEN {} ELSE opts \cup {100000}

VARIABLES
    group_id,     \* SumsClient.group_id
    call,         \* the method running or last run: "none", "authenticate", "members"
    args,         \* its arguments
    prev,         \* how the call before this one ended, and whether the
                  \* roster it returned is stale (the site's table changed)
    pc,           \* the await the call is suspended at
    log,          \* remote commands issued by the call, each with its result
    ret,          \* the value the call returned
    url,          \* browser: current URL
    loginError,   \* browser: text of the login-error paragraph, or NoElement
    form,         \* browser: the login form's fields
    options,      \* browser: values offered by the page-size control ({}: no control)
    pageSize,     \* browser: selected page size
    data,         \* site: the group's member table
    rows,         \* members(): member_elements
    idx,          \* members(): position of the for loop
    texts,        \* members(): cell texts read for the current row
    members,      \* members(): the Vec being built
    parked        \* the other future of a join on the same &SumsClient, while
                  \* the executor polls this one (NoFuture: there is none)

caller == <<call, args, prev, parked>>
page == <<url, loginError, form, options, pageSize>>
locals == <<rows, idx, texts, members>>
vars == <<group_id, call, args, prev, pc, log, ret, url, loginError, form,
          options, pageSize, data, rows, idx, texts, members, parked>>

NoArgs == [username |-> "", password |-> ""]

\* How a call ended, as far as a later call could be told about it.
Outcome(method, r) ==
    IF r.tag = "Ok" THEN <<method, "ok">>
    ELSE IF r.tag = "Err" /\ r.value.variant = "AuthFailedError" THEN <<method, "rejected">>
    ELSE IF r.tag = "Err" THEN <<method, "failed">>
    ELSE <<"none", "none">>

NoPrev == [outcome |-> <<"none", "none">>, stale |-> FALSE]

\* The state of one future of authenticate or members: its method and
\* arguments, the await it is suspended at, and its locals.
Future ==
    [call |-> call, args |-> args, pc |-> pc, log |-> log, ret |-> ret,
     rows |-> rows, idx |-> idx, texts |-> texts, members |-> members]

NoFuture ==
    [call |-> "none", args |-> NoArgs, pc |-> "none", log |-> <<>>, ret |-> NoReturn,
     rows |-> <<>>, idx |-> 0, texts |-> <<>>, members |-> <<>>]

Init ==
    /\ group_id \in GroupIds
    /\ call = "none"
    /\ args = NoArgs
    /\ prev = NoPrev
    /\ parked = NoFuture
    /\ pc = "idle"
    /\ log = <<>>
    /\ ret = NoReturn
    /\ url = BlankPage
    /\ loginError = NoElement
    /\ form = EmptyForm
    /\ options = {}
    /\ pageSize = DefaultPageSize
    /\ data \in Tables
    /\ rows = <<>>
    /\ idx = 0
    /\ texts = <<>>
    /\ members = <<>>

(***************************************************************************)
(* Issuing a command, and the `?` operator.                                *)
(***************************************************************************)
Issue(op, target, res) ==
    log' = Append(log, [op |-> op, target |-> target, res |-> res])

\* The call returns r: its locals are dropped.
Return(r) ==
    /\ pc' = "done"
    /\ ret' = r
    /\ rows' = <<>>
    /\ idx' = 0
    /\ texts' = <<>>
    /\ members' = <<>>

\* The call panics: it unwinds through its caller and returns nothing.
Panic ==
    /\ pc' = "panicked"
    /\ ret' = Panicked
    /\ rows' = <<>>
    /\ idx' = 0
    /\ texts' = <<>>
    /\ members' = <<>>

Continue(next) ==
    /\ pc' = next
    /\ UNCHANGED <<ret, locals>>

\* A browser page freshly loaded at u.
Load(u) ==
    /\ url' = u
    /\ loginError' = NoElement
    /\ form' = EmptyForm
    /\ options' = {}
    /\ pageSize' = DefaultPageSize

\* `cmd.await?` in authenticate
AuthTry(op, target, res, next) ==
    /\ Issue(op, target, res)
    /\ IF res = "ok" THEN Continue(next) ELSE Return(Err(FromCmdErrorAuth(res)))

\* `cmd.await?` in go_to_member_page, then `self.go_to_member_page().await?`
GoToTry(op, target, res, next) ==
    /\ Issue(op, target, res)
    /\ IF res = "ok" THEN Continue(next)
       ELSE Return(Err(FromSumsClientErrorMembers(WebDriverCmdError(res))))

\* `cmd.await?` in members
MembersTry(op, target, res, next) ==
    /\ Issue(op, target, res)
    /\ IF res = "ok" THEN Continue(next) ELSE Return(Err(FromCmdErrorMembers(res)))

\* Results of a command that needs no element.
Plain == {"ok"} \cup TransportFaults
\* Results of locating an element the site may or may not serve.
Located == {"ok", NoSuchElement} \cup TransportFaults

(***************************************************************************)
(* The caller.                                                             *)
(***************************************************************************)
Start(method, a, first) ==
    /\ call' = method
    /\ args' = a
    /\ prev' = IF pc = "done" THEN [outcome |-> Outcome(call, ret), stale |-> FALSE]
               ELSE prev
    /\ pc' = first
    /\ log' = <<>>
    /\ ret' = NoReturn
    /\ UNCHANGED <<group_id, parked, page, data, locals>>

\* No call is running and the caller may make another.
CanCall == pc \in {"idle", "done"}

CallAuthenticate ==
    /\ CanCall
    /\ \E u \in Usernames, p \in Passwords :
        Start("authenticate", [username |-> u, password |-> p], "auth_goto")

\* A members that refuses to run unless the call before it was a successful
\* authenticate.
CallMembers_guarded ==
    /\ CanCall
    /\ IF pc = "done" /\ Outcome(call, ret) = <<"authenticate", "ok">>
       THEN Start("members", NoArgs, "goto_goto")
       ELSE /\ call' = "members"
            /\ args' = NoArgs
            /\ prev' = IF pc = "done"
                       THEN [outcome |-> Outcome(call, ret), stale |-> FALSE]
                       ELSE prev
            /\ pc' = "done"
            /\ log' = <<>>
            /\ ret' = Err([variant |-> "NotAuthenticated", source |-> ""])
            /\ UNCHANGED <<group_id, parked, page, data, locals>>

CallMembers ==
    /\ CanCall
    /\ Start("members", NoArgs, "goto_goto")

\* The tables one change away: a member joined, or the first listed left.
Changed(table) ==
    {Append(table, r) : r \in IF Len(table) < MaxRows THEN RowKinds ELSE {}}
        \cup (IF table = <<>> THEN {} ELSE {Tail(table)})

\* Between two calls the site's table changes; the caller has taken the
\* returned value by then.
SiteUpdate ==
    /\ pc = "done"
    /\ data' \in Changed(data)
    /\ pc' = "idle"
    /\ prev' = [outcome |-> Outcome(call, ret),
                stale |-> Outcome(call, ret) = <<"members", "ok">>]
    /\ ret' = NoReturn
    /\ log' = <<>>
    /\ UNCHANGED <<group_id, call, args, parked, page, locals>>

(***************************************************************************)
(* authenticate (client.rs 95-143)                                         *)
(***************************************************************************)
\* self.client.goto(BASE_URL).await?
AuthGoto ==
    /\ pc = "auth_goto"
    /\ \E res \in Plain :
        /\ AuthTry("goto", <<BASE_URL>>, res, "auth_find_menu")
        /\ IF res = "ok" THEN Load(BasePage) ELSE UNCHANGED page
    /\ UNCHANGED <<group_id, caller, data>>

\* self.client.find(Locator::Id("userActionsInvoker")).await?
AuthFindMenu ==
    /\ pc = "auth_find_menu"
    /\ \E res \in Located : AuthTry("find", UserActionsInvoker, res, "auth_click_menu")
    /\ UNCHANGED <<group_id, caller, page, data>>

\* .click().await?
AuthClickMenu ==
    /\ pc = "auth_click_menu"
    /\ \E res \in Plain : AuthTry("click", UserActionsInvoker, res, "auth_find_login")
    /\ UNCHANGED <<group_id, caller, page, data>>

\* self.client.find(Locator::XPath("//*[@id=\"userActions\"]/ul/li[1]/a[1]")).await?
AuthFindLogin ==
    /\ pc = "auth_find_login"
    /\ \E res \in Located : AuthTry("find", StudentLogin, res, "auth_click_login")
    /\ UNCHANGED <<group_id, caller, page, data>>

\* .click().await?  The browser follows the link to the login page.
AuthClickLogin ==
    /\ pc = "auth_click_login"
    /\ \E res \in Plain :
        /\ AuthTry("click", StudentLogin, res, "auth_form")
        /\ IF res = "ok" THEN Load(LoginPage) ELSE UNCHANGED page
    /\ UNCHANGED <<group_id, caller, data>>

\* self.client.form(Locator::XPath("/html/body/div/div/div/div[1]/form")).await?
AuthForm ==
    /\ pc = "auth_form"
    /\ \E res \in Located : AuthTry("form", LoginForm, res, "auth_set_username")
    /\ UNCHANGED <<group_id, caller, page, data>>

\* A flow that submits right after the username.
AuthSetUsername_thenSubmit ==
    /\ pc = "auth_set_username"
    /\ \E res \in Located :
        /\ AuthTry("set", <<"id", "username", args.username>>, res, "auth_submit")
        /\ form' = IF res = "ok" THEN [form EXCEPT !.username = args.username] ELSE form
    /\ UNCHANGED <<group_id, caller, url, loginError, options, pageSize, data>>

\* login_form.set(Locator::Id("username"), username.as_ref()).await?
AuthSetUsername ==
    /\ pc = "auth_set_username"
    /\ \E res \in Located :
        /\ AuthTry("set", <<"id", "username", args.username>>, res, "auth_set_password")
        /\ form' = IF res = "ok" THEN [form EXCEPT !.username = args.username] ELSE form
    /\ UNCHANGED <<group_id, caller, url, loginError, options, pageSize, data>>

\* login_form.set(Locator::Id("password"), password.as_ref()).await?
AuthSetPassword ==
    /\ pc = "auth_set_password"
    /\ \E res \in Located :
        /\ AuthTry("set", <<"id", "password", args.password>>, res, "auth_submit")
        /\ form' = IF res = "ok" THEN [form EXCEPT !.password = args.password] ELSE form
    /\ UNCHANGED <<group_id, caller, url, loginError, options, pageSize, data>>

\* A submit that is tried again when it fails.
AuthSubmit_retrying ==
    /\ pc = "auth_submit"
    /\ \E res \in Plain :
        /\ Issue("submit", LoginForm, res)
        /\ Continue(IF res = "ok" THEN "auth_probe" ELSE "auth_submit")
        /\ IF res # "ok" THEN UNCHANGED page
           ELSE IF <<form.username, form.password>> \in Accounts THEN Load(SuPage)
           ELSE /\ url' = LoginPage
                /\ loginError' \in ErrorTexts
                /\ form' = EmptyForm
                /\ UNCHANGED <<options, pageSize>>
    /\ UNCHANGED <<group_id, caller, data>>

\* login_form.submit().await?  The portal lets an accepted login through to
\* the SU site and answers any other with the login page and an error text.
AuthSubmit ==
    /\ pc = "auth_submit"
    /\ \E res \in Plain :
        /\ AuthTry("submit", LoginForm, res, "auth_probe")
        /\ IF res # "ok" THEN UNCHANGED page
           ELSE IF <<form.username, form.password>> \in Accounts THEN Load(SuPage)
           ELSE /\ url' = LoginPage
                /\ loginError' \in ErrorTexts
                /\ form' = EmptyForm
                /\ UNCHANGED <<options, pageSize>>
    /\ UNCHANGED <<group_id, caller, data>>

\* What locating the login-error paragraph gives: the element when the page
\* has it, NoSuchElement when it has not, or a fault of the transport.
ProbeResults == {IF loginError = NoElement THEN NoSuchElement ELSE "ok"} \cup TransportFaults

\* A probe read the wrong way round: found means signed in.
AuthProbe_inverted ==
    /\ pc = "auth_probe"
    /\ \E res \in ProbeResults :
        /\ Issue("find", LoginErrorText, res)
        /\ IF res = "ok" THEN Return(Ok(Unit))
           ELSE Return(Err(AuthFailedError("")))
    /\ UNCHANGED <<group_id, caller, page, data>>

\* A client that remembers a rejection and repeats it.
AuthProbe_latched ==
    /\ pc = "auth_probe"
    /\ \E res \in ProbeResults :
        /\ Issue("find", LoginErrorText, res)
        /\ IF res = "ok" THEN Continue("auth_error_text")
           ELSE IF prev.outcome = <<"authenticate", "rejected">>
           THEN Return(Err(AuthFailedError("")))
           ELSE Return(Ok(Unit))
    /\ UNCHANGED <<group_id, caller, page, data>>

\* let login_error = self.client.find(Locator::XPath(".../section/p")).await;
\* match login_error { Ok(element) => ..., Err(_) => Ok(()) }
AuthProbe ==
    /\ pc = "auth_probe"
    /\ \E res \in ProbeResults :
        /\ Issue("find", LoginErrorText, res)
        /\ IF res = "ok" THEN Continue("auth_error_text") ELSE Return(Ok(Unit))
    /\ UNCHANGED <<group_id, caller, page, data>>

\* A text read that falls back to the empty string (`unwrap_or_default()`).
AuthErrorText_defaulted ==
    /\ pc = "auth_error_text"
    /\ \E res \in Plain :
        /\ Issue("text", LoginErrorText, res)
        /\ IF res = "ok" THEN Return(Err(AuthFailedError(loginError)))
           ELSE Return(Err(AuthFailedError("")))
    /\ UNCHANGED <<group_id, caller, page, data>>

\* Err(SumsClientAuthError::AuthFailedError(element.text().await?))
AuthErrorText ==
    /\ pc = "auth_error_text"
    /\ \E res \in Plain :
        /\ Issue("text", LoginErrorText, res)
        /\ IF res = "ok" THEN Return(Err(AuthFailedError(loginError)))
           ELSE Return(Err(FromCmdErrorAuth(res)))
    /\ UNCHANGED <<group_id, caller, page, data>>

authenticate ==
    \/ AuthGoto \/ AuthFindMenu \/ AuthClickMenu \/ AuthFindLogin \/ AuthClickLogin
    \/ AuthForm \/ AuthSetUsername \/ AuthSetPassword \/ AuthSubmit
    \/ AuthProbe \/ AuthErrorText

(***************************************************************************)
(* go_to_member_page (client.rs 201-216)                                   *)
(***************************************************************************)
\* A navigation that is skipped when the browser is still on the members
\* page of an earlier call.
GoToGoto_resuming ==
    /\ pc = "goto_goto"
    /\ IF url = MembersUrl(group_id)
       THEN /\ Continue("members_find_tbody")
            /\ UNCHANGED <<log, page>>
       ELSE \E res \in Plain :
            /\ GoToTry("goto", <<BASE_URL>>, res, "goto_find_menu")
            /\ IF res = "ok" THEN Load(BasePage) ELSE UNCHANGED page
    /\ UNCHANGED <<group_id, caller, data>>

\* self.client.goto(BASE_URL).await?
GoToGoto ==
    /\ pc = "goto_goto"
    /\ \E res \in Plain :
        /\ GoToTry("goto", <<BASE_URL>>, res, "goto_find_menu")
        /\ IF res = "ok" THEN Load(BasePage) ELSE UNCHANGED page
    /\ UNCHANGED <<group_id, caller, data>>

\* let user_button = self.client.find(Locator::Id("userActionsInvoker")).await?
GoToFindMenu ==
    /\ pc = "goto_find_menu"
    /\ \E res \in Located : GoToTry("find", UserActionsInvoker, res, "goto_click_menu")
    /\ UNCHANGED <<group_id, caller, page, data>>

\* user_button.click().await?
GoToClickMenu ==
    /\ pc = "goto_click_menu"
    /\ \E res \in Plain : GoToTry("click", UserActionsInvoker, res, "goto_find_link")
    /\ UNCHANGED <<group_id, caller, page, data>>

\* let login_button = self.client.find(Locator::Id("studentDashboardLink")).await?
GoToFindLink ==
    /\ pc = "goto_find_link"
    /\ \E res \in Located : GoToTry("find", StudentDashboardLink, res, "goto_click_link")
    /\ UNCHANGED <<group_id, caller, page, data>>

\* login_button.click().await?  The link leads to the dashboard, or to the
\* login page when the site wants a login first.
GoToClickLink ==
    /\ pc = "goto_click_link"
    /\ \E res \in Plain :
        /\ GoToTry("click", StudentDashboardLink, res, "goto_wait")
        /\ IF res = "ok" THEN \E u \in {DashboardPage, LoginPage} : Load(u)
           ELSE UNCHANGED page
    /\ UNCHANGED <<group_id, caller, data>>

\* What the bounded wait gives: it resolves when the browser is at the
\* dashboard, and times out when it is not.
WaitResults == {IF url = DashboardPage THEN "ok" ELSE WaitTimeout} \cup TransportFaults

\* A wait whose result is dropped (`let _ = ...await;`).
GoToWait_unchecked ==
    /\ pc = "goto_wait"
    /\ \E res \in WaitResults :
        /\ Issue("wait", <<DASHBOARD_URL>>, res)
        /\ Continue("members_goto")
    /\ UNCHANGED <<group_id, caller, page, data>>

\* self.client.wait().for_url(DASHBOARD_URL.clone()).await?; Ok(())
\* and, back in members, `self.go_to_member_page().await?`
GoToWait ==
    /\ pc = "goto_wait"
    /\ \E res \in WaitResults : GoToTry("wait", <<DASHBOARD_URL>>, res, "members_goto")
    /\ UNCHANGED <<group_id, caller, page, data>>

go_to_member_page ==
    \/ GoToGoto \/ GoToFindMenu \/ GoToClickMenu \/ GoToFindLink \/ GoToClickLink
    \/ GoToWait

(***************************************************************************)
(* members (client.rs 145-199)                                             *)
(***************************************************************************)
\* self.client.goto(&format!(".../groups/{}/members", self.group_id)).await?
\* The page is served with the table at its default page size.
MembersGoto ==
    /\ pc = "members_goto"
    /\ \E res \in Plain :
        /\ MembersTry("goto", MembersUrl(group_id), res, "members_execute")
        /\ IF res = "ok"
           THEN /\ url' = MembersUrl(group_id)
                /\ loginError' = NoElement
                /\ form' = EmptyForm
                /\ options' \in {DefaultOptions, {}}
                /\ pageSize' = DefaultPageSize
           ELSE UNCHANGED page
    /\ UNCHANGED <<group_id, caller, data>>

\* self.client.execute(ADD_SHOW_ALL_ENTRIES_JS, Vec::new()).await?
\* The script adds its option, or, on markup it was not written for, leaves
\* the control as it found it.
MembersExecute ==
    /\ pc = "members_execute"
    /\ \E res \in Plain :
        /\ MembersTry("execute", <<"ADD_SHOW_ALL_ENTRIES_JS">>, res, "members_find_select")
        /\ IF res = "ok" THEN options' \in {AddShowAllEntries(options), options}
           ELSE options' = options
    /\ UNCHANGED <<group_id, caller, url, loginError, form, pageSize, data>>

\* let entry_count_selector = self.client.find(Locator::Css("#..._length > ... select")).await?
MembersFindSelect ==
    /\ pc = "members_find_select"
    /\ \E res \in {IF options = {} THEN NoSuchElement ELSE "ok"} \cup TransportFaults :
        MembersTry("find", EntryCountSelect, res, "members_select")
    /\ UNCHANGED <<group_id, caller, page, data>>

\* A selection whose result is dropped (`let _ = ...await;`).
MembersSelect_unchecked ==
    /\ pc = "members_select"
    /\ \E res \in {IF entry_count_u64 \in options THEN "ok" ELSE NoSuchElement}
                      \cup TransportFaults :
        /\ Issue("select_by_value", <<entry_count_u64>>, res)
        /\ Continue("members_find_tbody")
        /\ pageSize' = IF res = "ok" THEN entry_count_u64 ELSE pageSize
    /\ UNCHANGED <<group_id, caller, url, loginError, form, options, data>>

\* entry_count_selector.select_by_value(&entry_count_u64.to_string()).await?
\* The control switches to the option with that value when it offers one.
MembersSelect ==
    /\ pc = "members_select"
    /\ \E res \in {IF entry_count_u64 \in options THEN "ok" ELSE NoSuchElement}
                      \cup TransportFaults :
        /\ MembersTry("select_by_value", <<entry_count_u64>>, res, "members_find_tbody")
        /\ pageSize' = IF res = "ok" THEN entry_count_u64 ELSE pageSize
    /\ UNCHANGED <<group_id, caller, url, loginError, form, options, data>>

\* let table_body = self.client.find(Locator::Css("#... > tbody:nth-child(2)")).await?
MembersFindTbody ==
    /\ pc = "members_find_tbody"
    /\ \E res \in Located : MembersTry("find", TableBody, res, "members_find_rows")
    /\ UNCHANGED <<group_id, caller, page, data>>

\* A loop head that takes the first element before looking at the length.
ForRows_nonEmpty(elements, i, built) ==
    IF elements = <<>>
    THEN Panic
    ELSE IF i > Len(elements)
    THEN Return(Ok(built))
    ELSE /\ pc' = "row_find_cells"
         /\ rows' = elements
         /\ idx' = i
         /\ texts' = <<>>
         /\ members' = built
         /\ UNCHANGED ret

\* The head of `for member_element in member_elements`, reached with the
\* elements found and the Vec built so far: the next row, or Ok(members).
ForRows(elements, i, built) ==
    IF i > Len(elements)
    THEN Return(Ok(built))
    ELSE /\ pc' = "row_find_cells"
         /\ rows' = elements
         /\ idx' = i
         /\ texts' = <<>>
         /\ members' = built
         /\ UNCHANGED ret

\* let member_elements = table_body.find_all(Locator::Css("tr")).await?;
\* let mut members = Vec::new();
MembersFindRows ==
    /\ pc = "members_find_rows"
    /\ \E res \in Plain :
        /\ Issue("find_all", <<"tr">>, res)
        /\ IF res = "ok" THEN ForRows(Rendered(data, pageSize), 1, <<>>)
           ELSE Return(Err(FromCmdErrorMembers(res)))
    /\ UNCHANGED <<group_id, caller, page, data>>

\* let member_table_data = member_element.find_all(Locator::Css("td")).await?
RowFindCells ==
    /\ pc = "row_find_cells"
    /\ \E res \in Plain : MembersTry("find_all", <<"td", idx>>, res, "row_text_0")
    /\ UNCHANGED <<group_id, caller, page, data>>

\* member_table_data[k]: indexing past the end of the Vec panics.
\* member_table_data[k].text().await? reads the cell and keeps its text.
RowText(k, here, next) ==
    /\ pc = here
    /\ IF k + 1 > Len(rows[idx])
       THEN /\ Panic
            /\ UNCHANGED log
       ELSE \E res \in Plain :
            /\ Issue("text", <<"td", idx, k>>, res)
            /\ IF res = "ok"
               THEN /\ pc' = next
                    /\ texts' = Append(texts, rows[idx][k + 1])
                    /\ UNCHANGED <<ret, rows, idx, members>>
               ELSE Return(Err(FromCmdErrorMembers(res)))
    /\ UNCHANGED <<group_id, caller, page, data>>

\* member_table_data[0].text().await?.parse()?
RowText0 ==
    /\ pc = "row_text_0"
    /\ RowText(0, "row_text_0", "row_text_1")

\* member_table_data[1].text().await?
RowText1 ==
    /\ pc = "row_text_1"
    /\ RowText(1, "row_text_1", "row_text_3")

\* member_table_data[3].text().await?
RowText3 ==
    /\ pc = "row_text_3"
    /\ RowText(3, "row_text_3", "row_text_4")

\* The record built from the texts read for one row, or the error of the
\* first conversion that fails:
\* Member::new(t0.parse()?, t1, MemberType::Student, t3,
\*             NaiveDate::parse_from_str(&t4, "%Y-%m-%d")?)
BuildMember(t0, t1, t3, t4) ==
    LET id == ParseStudentId(t0)
        date == ParseDate(t4)
    IN  IF id.tag = "Err" THEN id
        ELSE IF date.tag = "Err" THEN date
        ELSE Ok(Member_new(id.value, t1, Student, t3, date.value))

\* A loop that drops a row it cannot convert and goes on.
AfterRow_skipping(m) ==
    IF m.tag = "Err" THEN ForRows(rows, idx + 1, members)
    ELSE ForRows(rows, idx + 1, Append(members, m.value))

\* The `?` on the conversions, then members.push(member) and the next turn
\* of the loop.
AfterRow(m) ==
    IF m.tag = "Err" THEN Return(m)
    ELSE ForRows(rows, idx + 1, Append(members, m.value))

\* NaiveDate::parse_from_str(&member_table_data[4].text().await?, "%Y-%m-%d")?
\* then Member::new(...), members.push(member) and the next turn of the loop.
RowText4 ==
    /\ pc = "row_text_4"
    /\ IF Len(rows[idx]) < 5
       THEN /\ Panic
            /\ UNCHANGED log
       ELSE \E res \in Plain :
            /\ Issue("text", <<"td", idx, 4>>, res)
            /\ IF res # "ok" THEN Return(Err(FromCmdErrorMembers(res)))
               ELSE AfterRow(BuildMember(texts[1], texts[2], texts[3], rows[idx][5]))
    /\ UNCHANGED <<group_id, caller, page, data>>

members_ ==
    \/ go_to_member_page
    \/ MembersGoto \/ MembersExecute \/ MembersFindSelect \/ MembersSelect
    \/ MembersFindTbody \/ MembersFindRows
    \/ RowFindCells \/ RowText0 \/ RowText1 \/ RowText3 \/ RowText4

(***************************************************************************)
(* Two futures of one client. authenticate and members take &self         *)
(* (client.rs 95-98, 145), so a caller can hold the futures of two calls   *)
(* on the same SumsClient and await them together (join); the executor     *)
(* then polls them in turn, switching at their awaits.                     *)
(***************************************************************************)
\* The first future is suspended at the await of its first command.
CanJoin ==
    /\ parked = NoFuture
    /\ pc \notin {"idle", "done", "panicked"}
    /\ Len(log) = 1

\* The second future of the join is polled for the first time.
Join(method, a, first) ==
    /\ parked' = Future
    /\ call' = method
    /\ args' = a
    /\ pc' = first
    /\ log' = <<>>
    /\ ret' = NoReturn
    /\ rows' = <<>>
    /\ idx' = 0
    /\ texts' = <<>>
    /\ members' = <<>>
    /\ UNCHANGED <<group_id, prev, page, data>>

JoinAuthenticate ==
    /\ CanJoin
    /\ \E u \in Usernames, p \in Passwords :
        Join("authenticate", [username |-> u, password |-> p], "auth_goto")

JoinMembers ==
    /\ CanJoin
    /\ Join("members", NoArgs, "goto_goto")

\* The executor leaves this future at its await and polls the other one.
Poll ==
    /\ parked.pc \notin {"none", "done"}
    /\ pc # "panicked"
    /\ parked' = Future
    /\ call' = parked.call
    /\ args' = parked.args
    /\ pc' = parked.pc
    /\ log' = parked.log
    /\ ret' = parked.ret
    /\ rows' = parked.rows
    /\ idx' = parked.idx
    /\ texts' = parked.texts
    /\ members' = parked.members
    /\ UNCHANGED <<group_id, prev, page, data>>

\* Both futures have returned: the join hands their values to the caller.
JoinDone ==
    /\ pc = "done"
    /\ parked.pc = "done"
    /\ parked' = NoFuture
    /\ UNCHANGED <<group_id, call, args, prev, pc, log, ret, page, data, locals>>

Next ==
    \/ CallAuthenticate
    \/ CallMembers
    \/ SiteUpdate
    \/ authenticate
    \/ members_

Spec == Init /\ [][Next]_vars

\* A caller that also joins two calls on the one client, for the group of
\* the tests and a table of at most one member.
InitJoin ==
    /\ Init
    /\ group_id = GROUP_ID
    /\ data \in {<<>>, <<RowJane>>}

NextJoin ==
    \/ CallAuthenticate
    \/ CallMembers
    \/ JoinAuthenticate
    \/ JoinMembers
    \/ Poll
    \/ JoinDone
    \/ authenticate
    \/ members_

SpecJoin == InitJoin /\ [][NextJoin]_vars

(***************************************************************************)
(* Properties.                                                             *)
(***************************************************************************)
\* The call of method m has returned to its caller.
Returned(m) == pc = "done" /\ call = m

IsOk(r) == r.tag = "Ok"

\* AuthFailedError(text)
IsRejection(r, text) ==
    /\ r.tag = "Err"
    /\ r.value.variant = "AuthFailedError"
    /\ r.value.source = text

\* SumsClientError(WebDriverCmdError(e))
IsCommandFailure(r, e) ==
    /\ r.tag = "Err"
    /\ r.value.variant = "SumsClientError"
    /\ r.value.source = [variant |-> "WebDriverCmdError", source |-> e]

\* Steps 1-5 of authenticate are nine remote commands; the probe is the tenth.
AuthFlowCommands == 9
ProbeAt == AuthFlowCommands + 1

\* authenticate has run steps 1-5 without a failing command and has probed.
Probed == Returned("authenticate") /\ Len(log) >= ProbeAt

\* The probe's commands were answered by the page, not cut by the transport.
ProbeAnswered == \A i \in ProbeAt..Len(log) : log[i].res \notin TransportFaults

\* C1: when steps 1-5 of authenticate succeeded and the login page answered
\* the probe, authenticate returns AuthFailedError(T) if the login-error
\* element is present with text T, and Ok(()) if the element is absent.
C1_ProbeDecidesOutcome ==
    (Probed /\ ProbeAnswered) =>
        IF loginError = NoElement THEN IsOk(ret) ELSE IsRejection(ret, loginError)

\* A rejected login has returned the portal's text.
C1_Witness ==
    /\ Probed
    /\ ProbeAnswered
    /\ loginError = "Account locked."
    /\ IsRejection(ret, "Account locked.")

\* C2: a transport fault while probing for the login-error element never
\* makes authenticate return success.
C2_ProbeFaultIsNotSuccess ==
    (Probed /\ log[ProbeAt].res \in TransportFaults) => ~IsOk(ret)

\* C8: when a remote command of steps 1-5 of authenticate fails, authenticate
\* returns SumsClientError wrapping that command's error: neither a
\* rejection nor success.
C8_FlowFaultIsCommandFailure ==
    Returned("authenticate") =>
        \A i \in 1..Len(log) :
            (i <= AuthFlowCommands /\ log[i].res # "ok") =>
                IsCommandFailure(ret, log[i].res)

\* The submit of the login form failed and authenticate returned that fault.
C8_Witness ==
    /\ Returned("authenticate")
    /\ Len(log) = AuthFlowCommands
    /\ log[AuthFlowCommands].op = "submit"
    /\ log[AuthFlowCommands].res = "Lost"
    /\ IsCommandFailure(ret, "Lost")

\* The rows the table body shows once the call is past the page-size step.
Shown == Rendered(data, pageSize)

\* Every command the call issued succeeded.
AllOk == \A i \in 1..Len(log) : log[i].res = "ok"

\* Position in the log of the first command with this op and target, 0 if none.
At(op, target) ==
    LET hits == {i \in 1..Len(log) : log[i].op = op /\ log[i].target = target}
    IN  IF hits = {} THEN 0 ELSE CHOOSE i \in hits : \A j \in hits : i <= j

\* C4: over a table of N rows, N above the default page size, a successful
\* members call returns N records, and it enumerated the rows only after the
\* script injection and the selection of the maximum page size had succeeded.
C4_FullRosterBeyondDefaultPage ==
    (Returned("members") /\ IsOk(ret) /\ Len(data) > DefaultPageSize) =>
        /\ Len(ret.value) = Len(data)
        /\ 0 < At("execute", <<"ADD_SHOW_ALL_ENTRIES_JS">>)
        /\ At("execute", <<"ADD_SHOW_ALL_ENTRIES_JS">>) < At("select_by_value", <<100000>>)
        /\ At("select_by_value", <<100000>>) < At("find_all", <<"tr">>)

\* A roster longer than the default page has been returned.
C4_Witness ==
    /\ Returned("members")
    /\ IsOk(ret)
    /\ Len(data) > DefaultPageSize
    /\ Len(ret.value) = Len(data)

\* Row r has a date cell that is no YYYY-MM-DD date.
BadDate(r) == Len(r) >= 5 /\ ParseDate(r[5]).tag = "Err"

\* The call read (part of) a row and a command of that reading failed.
RowReadFailed ==
    \E i \in 1..Len(log) :
        /\ log[i].res # "ok"
        /\ log[i].op \in {"find_all", "text"}
        /\ Head(log[i].target) = "td"

\* C5: members is all-or-nothing: when a shown row has a date cell that does
\* not parse, or a command fails while a row is read, the call returns an
\* error, and a roster it returns has a record for every row of the table.
C5_AllOrNothing ==
    Returned("members") =>
        /\ ((\E i \in 1..Len(Shown) : BadDate(Shown[i])) \/ RowReadFailed) =>
               ret.tag = "Err"
        /\ IsOk(ret) => Len(ret.value) = Len(Shown)

\* A bad date in the second row: the call failed on it and returned no part
\* of the roster.
C5_Witness ==
    /\ Returned("members")
    /\ Len(Shown) >= 2
    /\ ~BadDate(Shown[1])
    /\ BadDate(Shown[2])
    /\ At("text", <<"td", 2, 4>>) = Len(log)
    /\ log[Len(log)].res = "ok"
    /\ ret = Err(ChronoParseError)

\* The calendar date a date cell of the site's rows stands for.
DateOf(text) ==
    CASE text = D_2023_09_01 -> [year |-> 2023, month |-> 9, day |-> 1]
      [] text = D_2023_9_1 -> [year |-> 2023, month |-> 9, day |-> 1]
      [] text = D_2024_02_29 -> [year |-> 2024, month |-> 2, day |-> 29]
      [] OTHER -> [year |-> 0, month |-> 0, day |-> 0]

\* C6: a successful members call over shown rows r_1..r_n returns n records
\* in document order, record i being {student_id: cell 0 of r_i, name:
\* cell 1, member_type: Student, subscription_purchased: cell 3,
\* date_joined: the date of cell 4}; cell 2 is in no field.
C6_RosterMirrorsRows ==
    (Returned("members") /\ IsOk(ret)) =>
        /\ Len(ret.value) = Len(Shown)
        /\ \A i \in 1..Len(Shown) :
            ret.value[i] = [student_id |-> Shown[i][1],
                            name |-> Shown[i][2],
                            member_type |-> "Student",
                            subscription_purchased |-> Shown[i][4],
                            date_joined |-> DateOf(Shown[i][5])]

\* A roster with a duplicated row, then a different one, in that order.
C6_Witness ==
    /\ Returned("members")
    /\ IsOk(ret)
    /\ data = <<RowSam, RowJane, RowJaneAlt>>
    /\ Len(ret.value) = 3
    /\ ret.value[1].student_id = "0042"
    /\ ret.value[2] = ret.value[3]
    /\ ret.value[3].date_joined = [year |-> 2023, month |-> 9, day |-> 1]

\* C7: when every command of members succeeded and the table has no rows,
\* members returns Ok with an empty roster.
C7_EmptyTableIsOk ==
    (call = "members" /\ pc \in {"done", "panicked"} /\ AllOk /\ data = <<>>) =>
        /\ IsOk(ret)
        /\ ret.value = <<>>

\* The table body was found, had no rows, and the call returned Ok([]).
C7_Witness ==
    /\ Returned("members")
    /\ data = <<>>
    /\ At("find_all", <<"tr">>) = Len(log)
    /\ AllOk
    /\ ret = Ok(<<>>)

\* C9: when the wait for the dashboard URL times out, members returns an
\* error and the timed-out wait is the last command it issued.
C9_TimeoutEndsMembers ==
    \A i \in 1..Len(log) :
        (log[i].op = "wait" /\ log[i].res = WaitTimeout) =>
            /\ i = Len(log)
            /\ Returned("members")
            /\ ret.tag = "Err"

\* The wait timed out on the login page and members returned an error.
C9_Witness ==
    /\ Returned("members")
    /\ url = LoginPage
    /\ log[Len(log)].op = "wait"
    /\ log[Len(log)].res = WaitTimeout
    /\ ret.tag = "Err"

\* The error variants members returns for a transport failure of a command.
TransportFailureKinds == {FromCmdErrorMembers(e).variant : e \in TransportFaults}

\* C10: the error members returns when the wait for the dashboard URL timed
\* out is of another kind than the one returned for a transport failure.
C10_TimeoutIsItsOwnKind ==
    (Returned("members") /\ log[Len(log)].op = "wait" /\ log[Len(log)].res = WaitTimeout) =>
        /\ ret.tag = "Err"
        /\ ret.value.variant \notin TransportFailureKinds

\* The page has no page-size control, or one without the show-all option.
NoShowAll == options = {} \/ 100000 \notin options

\* C11: when, after the script injection, the page-size control does not
\* exist or does not offer the maximum option, members returns an error on
\* the command that needed it and reads no table row: rows are enumerated
\* only with the maximum page size selected.
C11_MissingControlFailsLoudly ==
    /\ \A i \in 1..Len(log) :
          (log[i].op = "find_all" /\ log[i].target = <<"tr">>) =>
              (~NoShowAll /\ pageSize = 100000)
    /\ (Returned("members") /\ At("execute", <<"ADD_SHOW_ALL_ENTRIES_JS">>) > 0
            /\ log[At("execute", <<"ADD_SHOW_ALL_ENTRIES_JS">>)].res = "ok"
            /\ NoShowAll) =>
          /\ ret.tag = "Err"
          /\ log[Len(log)].res # "ok"
          /\ log[Len(log)].op \in {"find", "select_by_value"}
          /\ Len(log) <= At("execute", <<"ADD_SHOW_ALL_ENTRIES_JS">>) + 2

\* The control is there with its stock options only: the selection of the
\* maximum failed and members returned that error.
C11_Witness ==
    /\ Returned("members")
    /\ options = DefaultOptions
    /\ log[Len(log)].op = "select_by_value"
    /\ log[Len(log)].res = NoSuchElement
    /\ IsCommandFailure(ret, NoSuchElement)

\* Number of commands of the call with this op.
Count(op) == Cardinality({i \in 1..Len(log) : log[i].op = op})

\* Number of navigations of the call to this URL.
CountGoto(target) ==
    Cardinality({i \in 1..Len(log) : log[i].op = "goto" /\ log[i].target = target})

\* C13: no command is retried: a call submits the login form at most once,
\* issues each navigation, the script injection and the page-size selection
\* at most once, and issues no command after its first failing one.
C13_NoRetries ==
    /\ Count("submit") <= 1
    /\ CountGoto(<<BASE_URL>>) <= 1
    /\ CountGoto(MembersUrl(group_id)) <= 1
    /\ Count("wait") <= 1
    /\ Count("execute") <= 1
    /\ Count("select_by_value") <= 1
    /\ \A i \in 1..Len(log) : log[i].res # "ok" => i = Len(log)

\* The submit failed and the call ended on it, having submitted once.
C13_Witness ==
    /\ Returned("authenticate")
    /\ Count("submit") = 1
    /\ log[Len(log)].op = "submit"
    /\ log[Len(log)].res = "Failed"

\* The command at position i was issued after a successful command with
\* this op and target.
After(i, op, target) ==
    \E j \in 1..(i - 1) : log[j].op = op /\ log[j].target = target /\ log[j].res = "ok"

\* C14: commands are issued in order, each after the one before it returned
\* successfully: in authenticate the submit after both fields were set and
\* the probe after the submit; in members the navigation to the members URL
\* after the wait, the script after that navigation, the selection after
\* the script, and the first row read after the selection.
C14_IssuedInOrder ==
    \A i \in 1..Len(log) :
        /\ i > 1 => log[i - 1].res = "ok"
        /\ log[i].op = "submit" =>
              /\ After(i, "set", <<"id", "username", args.username>>)
              /\ After(i, "set", <<"id", "password", args.password>>)
        /\ (log[i].op = "find" /\ log[i].target = LoginErrorText) =>
              After(i, "submit", LoginForm)
        /\ (log[i].op = "goto" /\ log[i].target = MembersUrl(group_id)) =>
              After(i, "wait", <<DASHBOARD_URL>>)
        /\ log[i].op = "execute" => After(i, "goto", MembersUrl(group_id))
        /\ log[i].op = "select_by_value" =>
              After(i, "execute", <<"ADD_SHOW_ALL_ENTRIES_JS">>)
        /\ log[i].op = "find_all" => After(i, "select_by_value", <<100000>>)

\* A members call that got as far as reading the cells of a row.
C14_Witness ==
    /\ call = "members"
    /\ At("find_all", <<"td", 1>>) > 0
    /\ At("select_by_value", <<100000>>) > 0

\* C15: the one fault the client swallows is a failing find of the
\* login-error element, which makes authenticate return Ok(()); a failing
\* read of the found element's text, like every other failing command of
\* authenticate and members, is returned as SumsClientError wrapping the
\* command's error.
C15_OnlyProbeSwallowed ==
    (pc = "done" /\ Len(log) > 0 /\ log[Len(log)].res # "ok") =>
        IF call = "authenticate" /\ log[Len(log)].op = "find"
               /\ log[Len(log)].target = LoginErrorText
        THEN IsOk(ret)
        ELSE IsCommandFailure(ret, log[Len(log)].res)

\* The element was found, reading its text failed, and authenticate
\* returned the command's error.
C15_Witness ==
    /\ Returned("authenticate")
    /\ loginError # NoElement
    /\ log[Len(log)].op = "text"
    /\ log[Len(log)].res = "Lost"
    /\ IsCommandFailure(ret, "Lost")

\* The record a five-cell row of the site's tables stands for.
RecordOf(r) ==
    [student_id |-> r[1],
     name |-> r[2],
     member_type |-> "Student",
     subscription_purchased |-> r[4],
     date_joined |-> DateOf(r[5])]

\* C16: members keeps no roster between calls: a successful members call
\* that follows a successful members call has navigated again from the base
\* URL to the members URL, has read the table body again, and returns the
\* roster of the table as the site holds it during this call.
C16_NoRosterKept ==
    (Returned("members") /\ IsOk(ret) /\ prev.outcome = <<"members", "ok">>) =>
        /\ log[1].op = "goto"
        /\ log[1].target = <<BASE_URL>>
        /\ At("goto", MembersUrl(group_id)) > 0
        /\ At("find_all", <<"tr">>) > At("goto", MembersUrl(group_id))
        /\ Len(ret.value) = Len(data)
        /\ \A i \in 1..Len(data) : ret.value[i] = RecordOf(data[i])

\* Two successful members calls with a change of the table between them: the
\* second returned the roster of the changed table.
C16_Witness ==
    /\ Returned("members")
    /\ IsOk(ret)
    /\ prev = [outcome |-> <<"members", "ok">>, stale |-> TRUE]
    /\ data = <<RowSam, RowJane>>
    /\ ret.value = <<RecordOf(RowSam), RecordOf(RowJane)>>

\* C17: no step changes the group identifier, and the navigation members
\* makes after the wait goes to
\* https://student-dashboard.sums.su/groups/{group_id}/members.
C17_GroupIdFixed ==
    [][/\ group_id' = group_id
       /\ pc = "members_goto" =>
            /\ Len(log') = Len(log) + 1
            /\ log'[Len(log')].op = "goto"
            /\ log'[Len(log')].target =
                   <<"https://student-dashboard.sums.su", "groups", group_id, "members">>]_vars

\* A client made for another group than the one of the tests has navigated
\* to that group's members page.
C17_Witness ==
    /\ call = "members"
    /\ group_id = GROUP_ID + 1
    /\ url = <<"https://student-dashboard.sums.su", "groups", GROUP_ID + 1, "members">>
    /\ At("goto", url) > 0

\* The call before this one was no successful authenticate.
Unauthenticated ==
    prev.outcome \in {<<"none", "none">>, <<"authenticate", "rejected">>,
                      <<"authenticate", "failed">>}

\* C18: the client has no authentication guard: a members call made without
\* a successful authenticate before it starts with the navigation to the
\* base URL like any other, and when it returns an error the error is that
\* of its last command or of a date that did not parse.
C18_NoAuthGuard ==
    (Returned("members") /\ Unauthenticated) =>
        /\ Len(log) >= 1
        /\ log[1].op = "goto"
        /\ log[1].target = <<BASE_URL>>
        /\ ret.tag = "Err" =>
              \/ ret = Err(ChronoParseError)
              \/ IsCommandFailure(ret, log[Len(log)].res)

\* After a rejected login members ran its commands up to the wait, which
\* timed out on the login page.
C18_Witness ==
    /\ Returned("members")
    /\ prev.outcome = <<"authenticate", "rejected">>
    /\ url = LoginPage
    /\ log[Len(log)].op = "wait"
    /\ log[Len(log)].res = WaitTimeout

\* The loop is at (or ended on) a shown row with fewer than five cells.
ShortRowReached ==
    \E i \in 1..Len(Shown) :
        /\ Len(Shown[i]) < 5
        /\ \A j \in 1..(i - 1) : Len(Shown[j]) >= 5 /\ ~BadDate(Shown[j])
        /\ \E n \in 1..Len(log) : log[n].op = "find_all" /\ log[n].target = <<"td", i>>
                                     /\ log[n].res = "ok"

\* C19: members reads the cells of a row only when the row has five of
\* them, and a row with fewer makes the call return an error: it never
\* panics.
C19_ShortRowIsError ==
    /\ pc # "panicked"
    /\ \A n \in 1..Len(log) :
          (log[n].op = "text" /\ Head(log[n].target) = "td") =>
              Len(Shown[log[n].target[2]]) >= 5
    /\ (call = "members" /\ pc = "done" /\ ShortRowReached) => ret.tag = "Err"

\* C20: after a rejection the client can be used again: an authenticate
\* that follows a rejected one, is given a login the portal accepts and
\* meets no failing command up to the probe and no transport fault in it,
\* starts from the base URL and returns Ok(()).
C20_RetryAfterRejection ==
    (Probed /\ ProbeAnswered /\ prev.outcome = <<"authenticate", "rejected">>
        /\ <<args.username, args.password>> \in Accounts) =>
        /\ log[1].op = "goto"
        /\ log[1].target = <<BASE_URL>>
        /\ IsOk(ret)

\* A rejected authenticate followed by a successful one.
C20_Witness ==
    /\ Returned("authenticate")
    /\ prev.outcome = <<"authenticate", "rejected">>
    /\ args.password = "correct horse"
    /\ Len(log) = ProbeAt
    /\ IsOk(ret)

\* A future that has issued a command and has not returned.
InProgress(f) ==
    /\ f.pc \notin {"none", "idle", "done", "panicked"}
    /\ Len(f.log) >= 1

\* C12: one client never has two calls in progress together: while a call
\* that has issued commands has not returned, no other call on the same
\* client issues a command, so the commands of two calls never interleave
\* against the one browser document.
C12_OneCallAtATime == ~(InProgress(Future) /\ InProgress(parked))

====
